---------------------------- MODULE Spec2Model ----------------------------
(***************************************************************************)
(* Speech-to-text utility: src/index.py (CLI) and src/speech_app.py        *)
(* (menubar daemon).                                                       *)
(*                                                                         *)
(* The module holds six state machines over one set of variables, and      *)
(* eight specifications of them:                                           *)
(*   SpecModel      get_model(): the double-checked lazy singleton, called *)
(*                  by concurrent threads (index.py 16-34, speech_app.py   *)
(*                  45-61; the two copies are the same code).              *)
(*   SpecRecord     record_until_silence(): the audio callback thread and  *)
(*                  the polling main loop (index.py 36-69).                *)
(*   FairSpecRecord SpecRecord with both of its threads kept running.      *)
(*   SpecTranscribe transcribe() / transcribe_audio(): the temporary file  *)
(*                  and the model call (index.py 81-102, speech_app.py     *)
(*                  64-89).                                                *)
(*   Spec           the menubar daemon SpeechToTextApp: key listener,      *)
(*                  audio callback, preload threads and per-utterance      *)
(*                  workers (speech_app.py 108-253).                       *)
(*   SpecOverlap    the daemon used through its default key only, with     *)
(*                  enough frames for two transcribed utterances.          *)
(*   SpecConfig     load_config / save_config (speech_app.py 20-42).       *)
(*   SpecMain       main() of the command-line program (index.py 104-135). *)
(* Each specification leaves the variables of the other machines at their  *)
(* initial values.  Not modelled: the text of the status menu item (it is  *)
(* written next to every assignment of the title), quit_app, record_fixed  *)
(* and the console output other than the farewell line of main().          *)
(***************************************************************************)
EXTENDS Integers, Sequences, FiniteSets, TLC

VARIABLES
    \* ---- get_model (module globals and per-thread position)
    model,          \* _model: NoModel or the handle built by WhisperModel(...)
    model_lock,     \* _model_lock: Free or the thread holding it
    gm_pc,          \* per thread: position inside get_model()
    gm_ret,         \* per thread: value of the last completed get_model() call
    gm_saw_empty,   \* per thread: the current call read _model is None at line 19/48
    constructed,    \* number of WhisperModel(...) calls that returned a handle
    attempts,       \* number of WhisperModel(...) calls started
    failures,       \* number of WhisperModel(...) calls that raised
    calls,          \* per thread: get_model() calls started
    returned        \* set of handles returned by any get_model() call so far

gmVars == <<model, model_lock, gm_pc, gm_ret, gm_saw_empty, constructed,
            attempts, failures, calls, returned>>

VARIABLES
    \* ---- record_until_silence (arguments, locals, the two threads)
    max_duration,       \* argument, in tenths of a second
    silence_threshold,  \* argument, in level units
    silence_duration,   \* argument, in tenths of a second
    max_silent,         \* local max_silent, in frames
    chunks,             \* local chunks: the level of every frame appended
    silent_chunks,      \* nonlocal silent_chunks
    speaking_started,   \* nonlocal speaking_started
    cb_pc,              \* audio thread: "idle", or "appended" between lines 51 and 53
    rec_pc,             \* main thread: position in lines 59-69
    stream_open,        \* the sd.InputStream of the with-statement is running
    rec_reason          \* which `break` ended the loop: "silence", "max" or "none"

recVars == <<max_duration, silence_threshold, silence_duration, max_silent,
             chunks, silent_chunks, speaking_started, cb_pc, rec_pc,
             stream_open, rec_reason>>

VARIABLES
    \* ---- transcribe / transcribe_audio (per calling thread, and the file system)
    tr_pc,          \* per thread: position inside the call
    tr_variant,     \* per thread: "cli" (index.py transcribe) or "daemon" (transcribe_audio)
    tr_audio,       \* per thread: audio_data
    tr_path,        \* per thread: temp_path of the current call (NoPath before line 85/71)
    tr_exc,         \* per thread: an exception is propagating through the finally block
    tr_result,      \* per thread: the text returned by the last call that returned
    tr_calls,       \* per thread: calls started
    tr_written,     \* per thread: the samples handed to scipy's write() by the last call
    temp_files,     \* temporary files that exist on disk
    files_created,  \* temporary files created so far
    model_calls     \* model.transcribe(...) invocations so far

trVars == <<tr_pc, tr_variant, tr_audio, tr_path, tr_exc, tr_result, tr_calls,
            tr_written, temp_files, files_created, model_calls>>

VARIABLES
    \* ---- SpeechToTextApp (speech_app.py 108-259)
    config,           \* self.config['hotkey']
    trigger_key,      \* self.trigger_key
    key_listener,     \* self.key_listener: "running", or "stopped" once a callback raised
    is_recording,     \* self.is_recording
    audio_chunks,     \* self.audio_chunks: the numbers of the frames appended
    stream,           \* self.stream: NoStream or a stream
    open_streams,     \* input streams opened and not closed
    running_streams,  \* input streams started and not stopped
    sessions,         \* start_recording() calls so far
    frames_delivered, \* frames the audio device has delivered so far
    title,            \* self.title: "mic", "hourglass" or "red"
    w_pc,             \* per worker thread: position in _process_audio
    w_audio,          \* per worker thread: the audio_data argument
    w_pasted,         \* per worker thread: paste_text(text) ran
    w_notified,       \* per worker thread: the notification it showed
    spawned,          \* worker threads started so far
    p_pc,             \* per preload thread: position in _preload_model_bg
    preloads,         \* preload threads started so far
    pressed_key       \* the key whose key-down started the active recording and
                      \* whose key-up has not been delivered since; "none"
                      \* otherwise

dVars == <<config, trigger_key, key_listener, is_recording, audio_chunks,
           stream, open_streams, running_streams, sessions, frames_delivered,
           title, w_pc, w_audio, w_pasted, w_notified, spawned, p_pc, preloads,
           pressed_key>>

VARIABLES
    \* ---- load_config / save_config
    cfg_file,       \* content of CONFIG_PATH: NoFile or the text json.dump wrote
    cfg_saved,      \* argument of the last save_config call, NoConfig before it
    cfg_loaded,     \* result of the last load_config call, NoConfig before it
    cfg_pc          \* the last call: "start" (none yet), "saved" or "loaded"

cfVars == <<cfg_file, cfg_saved, cfg_loaded, cfg_pc>>

VARIABLES
    \* ---- main() of index.py
    main_pc,        \* position of main: "preload", "record", "transcribe",
                    \* "print" or "exited"
    args_sure,      \* args.sure: NoArg or Arg(n)
    args_dongu,     \* args.dongu
    main_recorder,  \* the recorder the last round called
    main_text,      \* text returned by the last transcribe call
    main_rounds,    \* completed rounds of the while loop
    interrupted,    \* a KeyboardInterrupt was raised in the main thread
    farewell,       \* the line "Çıkış." was printed
    exit_code       \* exit status of the process once main_pc = "exited"

mainVars == <<main_pc, args_sure, args_dongu, main_recorder, main_text,
              main_rounds, interrupted, farewell, exit_code>>

\* The variables of load_config / save_config and of main().
otherVars == <<cfVars, mainVars>>

vars == <<gmVars, recVars, trVars, dVars, cfVars, mainVars>>

-----------------------------------------------------------------------------
(* Bounds of the model *)

\* Number of threads calling get_model() concurrently in SpecModel.
NCallers == 3
\* get_model() calls each caller thread makes in SpecModel.
MaxCalls == 2
\* Model constructions that may raise in one run.
MaxFailures == 1
\* Frames the audio device delivers during one record_until_silence() call.
MaxStream == 5
\* Largest max_duration argument, in tenths of a second.
MaxDuration == 4
\* Largest silence_duration argument, in tenths of a second.
MaxSilence == 3
\* Longest sample buffer handed to transcribe / transcribe_audio in SpecTranscribe.
MaxSamples == 2
\* Calls of transcribe / transcribe_audio the main thread makes in SpecTranscribe.
MaxTranscribes == 2
\* Recordings the daemon starts in one run (each ends in at most one worker).
MaxWorkers == 2
\* Rounds of the while loop of main() in one run with --dongu.
MaxRounds == 3
\* Frames the audio device delivers in one run of SpecOverlap.
MaxOverlapFrames == 10
\* Preload threads in one run: the one of __init__ and the menu's.
MaxPreloads == 2
\* Frames the audio device delivers to the daemon in one run.
MaxFrames == 5

-----------------------------------------------------------------------------
(* get_model(): index.py 16-34, speech_app.py 45-61 *)

NoModel == <<>>
Free == <<>>
Handle(n) == <<n>>

Callers == {<<"caller", i>> : i \in 1..NCallers}

\* The thread running the CLI main loop, or a test calling transcribe().
MainThread == <<"main", 1>>

\* The daemon's per-utterance worker threads and its preload threads.
Workers == {<<"worker", i>> : i \in 1..MaxWorkers}
Preloaders == {<<"preload", i>> : i \in 1..MaxPreloads}

Threads == Callers \cup {MainThread} \cup Workers \cup Preloaders

\* State of the module globals and of every thread before any call.
GmInit ==
    /\ model = NoModel
    /\ model_lock = Free
    /\ gm_pc = [t \in Threads |-> "idle"]
    /\ gm_ret = [t \in Threads |-> NoModel]
    /\ gm_saw_empty = [t \in Threads |-> FALSE]
    /\ constructed = 0
    /\ attempts = 0
    /\ failures = 0
    /\ calls = [t \in Threads |-> 0]
    /\ returned = {}

\* A thread enters get_model().
GmEnter(t) ==
    /\ gm_pc[t] \in {"idle", "done", "raised"}
    /\ gm_pc' = [gm_pc EXCEPT ![t] = "check1"]
    /\ gm_saw_empty' = [gm_saw_empty EXCEPT ![t] = FALSE]
    /\ calls' = [calls EXCEPT ![t] = @ + 1]
    /\ UNCHANGED <<model, model_lock, gm_ret, constructed, attempts, failures,
                   returned>>

\* `if _model is None:` outside the lock (line 19 / 48).
GmCheck1(t) ==
    /\ gm_pc[t] = "check1"
    /\ gm_pc' = [gm_pc EXCEPT ![t] = IF model = NoModel THEN "acquire" ELSE "return"]
    /\ gm_saw_empty' = [gm_saw_empty EXCEPT ![t] = (model = NoModel)]
    /\ UNCHANGED <<model, model_lock, gm_ret, constructed, attempts, failures,
                   calls, returned>>

\* `with _model_lock:` entry: blocks until the lock is free (line 20 / 49).
GmAcquire(t) ==
    /\ gm_pc[t] = "acquire"
    /\ model_lock = Free
    /\ model_lock' = t
    /\ gm_pc' = [gm_pc EXCEPT ![t] = "check2"]
    /\ UNCHANGED <<model, gm_ret, gm_saw_empty, constructed, attempts, failures,
                   calls, returned>>

\* Faulty variant of GmCheck2: the test under the lock is dropped.
GmCheck2NoRecheck(t) ==
    /\ gm_pc[t] = "check2"
    /\ gm_pc' = [gm_pc EXCEPT ![t] = "construct"]
    /\ UNCHANGED <<model, model_lock, gm_ret, gm_saw_empty, constructed, attempts,
                   failures, calls, returned>>

\* `if _model is None:` under the lock (line 21 / 50).
GmCheck2(t) ==
    /\ gm_pc[t] = "check2"
    /\ gm_pc' = [gm_pc EXCEPT ![t] = IF model = NoModel THEN "construct" ELSE "release"]
    /\ UNCHANGED <<model, model_lock, gm_ret, gm_saw_empty, constructed, attempts,
                   failures, calls, returned>>

\* Lines 22-33 / 51-60 returning normally: the import, makedirs and
\* WhisperModel(...) succeed and the new handle is stored in _model.
GmConstructOk(t) ==
    /\ gm_pc[t] = "construct"
    /\ model' = Handle(attempts + 1)
    /\ attempts' = attempts + 1
    /\ constructed' = constructed + 1
    /\ gm_pc' = [gm_pc EXCEPT ![t] = "release"]
    /\ UNCHANGED <<model_lock, gm_ret, gm_saw_empty, failures, calls, returned>>

\* Faulty variant of GmConstructFail: the lock is taken and released by hand, so an
\* exception leaves it held.
GmConstructFailKeepsLock(t) ==
    /\ gm_pc[t] = "construct"
    /\ failures < MaxFailures
    /\ attempts' = attempts + 1
    /\ failures' = failures + 1
    /\ gm_pc' = [gm_pc EXCEPT ![t] = "raised"]
    /\ UNCHANGED <<model, model_lock, gm_ret, gm_saw_empty, constructed, calls,
                   returned>>

\* Lines 22-33 / 51-60 raising: the assignment to _model never happens, the
\* with-statement releases the lock and the exception leaves get_model().
GmConstructFail(t) ==
    /\ gm_pc[t] = "construct"
    /\ failures < MaxFailures
    /\ attempts' = attempts + 1
    /\ failures' = failures + 1
    /\ model_lock' = Free
    /\ gm_pc' = [gm_pc EXCEPT ![t] = "raised"]
    /\ UNCHANGED <<model, gm_ret, gm_saw_empty, constructed, calls, returned>>

\* Normal exit of the with-statement.
GmRelease(t) ==
    /\ gm_pc[t] = "release"
    /\ model_lock' = Free
    /\ gm_pc' = [gm_pc EXCEPT ![t] = "return"]
    /\ UNCHANGED <<model, gm_ret, gm_saw_empty, constructed, attempts, failures,
                   calls, returned>>

\* `return _model` (line 34 / 61): reads the global again.
GmReturn(t) ==
    /\ gm_pc[t] = "return"
    /\ gm_ret' = [gm_ret EXCEPT ![t] = model]
    /\ returned' = returned \cup {model}
    /\ gm_pc' = [gm_pc EXCEPT ![t] = "done"]
    /\ UNCHANGED <<model, model_lock, gm_saw_empty, constructed, attempts,
                   failures, calls>>

-----------------------------------------------------------------------------
(* record_until_silence(): index.py 36-69 *)

\* Frame levels np.abs(indata).mean(), in units in which the threshold is 1:
\* below the threshold, equal to it, above it.
Levels == {0, 1, 2}
Thresholds == {1}

\* int(silence_duration / 0.1) (line 45) for silence_duration = d / 10 in
\* IEEE double arithmetic: 0.1 is not representable and the quotient of
\* 0.3, 0.6, 0.7, 1.2, 1.4 and 1.9 by it falls just below the integer, which
\* int() truncates (0.3 / 0.1 = 2.9999999999999996).
TruncatedTenths == {3, 6, 7, 12, 14, 19}
MaxSilentFrames(d) == IF d \in TruncatedTenths THEN d - 1 ELSE d

\* len(chunks) * 0.1 >= max_duration (line 65) for max_duration = md / 10:
\* in double arithmetic n * 0.1 >= md / 10 exactly when n >= md (for every
\* n, md below 2000).
CeilingReached(n, md) == n >= md

\* Faulty variant of Exceeds: >= in place of >.
ExceedsOrEquals(level, threshold) == level >= threshold

\* `level > silence_threshold` (line 53).
Exceeds(level, threshold) == level > threshold

\* Faulty variant of SilenceReached: the limit is reached one frame early.
SilenceReachedOffByOne(started, silent, limit) == started /\ silent + 1 >= limit

\* `speaking_started and silent_chunks >= max_silent` (line 63).
SilenceReached(started, silent, limit) == started /\ silent >= limit

\* The record machine at rest (the other specifications keep it here).
RecIdle ==
    /\ max_duration = 1
    /\ silence_threshold = 1
    /\ silence_duration = 0
    /\ max_silent = 0
    /\ chunks = <<>>
    /\ silent_chunks = 0
    /\ speaking_started = FALSE
    /\ cb_pc = "idle"
    /\ rec_pc = "idle"
    /\ stream_open = FALSE
    /\ rec_reason = "none"

\* Lines 38-46: the call with its arguments, the locals initialised.
RecInit ==
    /\ max_duration \in 1..MaxDuration
    /\ silence_threshold \in Thresholds
    /\ silence_duration \in 0..MaxSilence
    /\ max_silent = MaxSilentFrames(silence_duration)
    /\ chunks = <<>>
    /\ silent_chunks = 0
    /\ speaking_started = FALSE
    /\ cb_pc = "idle"
    /\ rec_pc = "open"
    /\ stream_open = FALSE
    /\ rec_reason = "none"

\* Line 59-60: the with-statement opens and starts the input stream.
RecOpen ==
    /\ rec_pc = "open"
    /\ stream_open' = TRUE
    /\ rec_pc' = "sleep"
    /\ UNCHANGED <<max_duration, silence_threshold, silence_duration, max_silent,
                   chunks, silent_chunks, speaking_started, cb_pc, rec_reason>>

\* Line 59-60: sd.InputStream(...) raises (no device, no permission); the
\* exception leaves record_until_silence().
RecOpenFail ==
    /\ rec_pc = "open"
    /\ rec_pc' = "raised"
    /\ UNCHANGED <<max_duration, silence_threshold, silence_duration, max_silent,
                   chunks, silent_chunks, speaking_started, cb_pc, stream_open,
                   rec_reason>>

\* Audio thread, lines 50-51: a frame arrives, its level is measured and the
\* frame is appended.  The device delivers at most MaxStream frames.
CbAppend ==
    /\ stream_open
    /\ cb_pc = "idle"
    /\ Len(chunks) < MaxStream
    /\ \E level \in Levels : chunks' = Append(chunks, level)
    /\ cb_pc' = "appended"
    /\ UNCHANGED <<max_duration, silence_threshold, silence_duration, max_silent,
                   silent_chunks, speaking_started, rec_pc, stream_open,
                   rec_reason>>

\* Audio thread, lines 53-57: the counters follow the frame just appended.
CbUpdate ==
    /\ cb_pc = "appended"
    /\ LET level == chunks[Len(chunks)] IN
        IF Exceeds(level, silence_threshold)
        THEN speaking_started' = TRUE /\ silent_chunks' = 0
        ELSE IF speaking_started
             THEN silent_chunks' = silent_chunks + 1 /\ UNCHANGED speaking_started
             ELSE UNCHANGED <<silent_chunks, speaking_started>>
    /\ cb_pc' = "idle"
    /\ UNCHANGED <<max_duration, silence_threshold, silence_duration, max_silent,
                   chunks, rec_pc, stream_open, rec_reason>>

\* Line 62: sd.sleep(100) returns.
RecSleep ==
    /\ rec_pc = "sleep"
    /\ rec_pc' = "check_silence"
    /\ UNCHANGED <<max_duration, silence_threshold, silence_duration, max_silent,
                   chunks, silent_chunks, speaking_started, cb_pc, stream_open,
                   rec_reason>>

\* Lines 63-64.
RecCheckSilence ==
    /\ rec_pc = "check_silence"
    /\ IF SilenceReached(speaking_started, silent_chunks, max_silent)
       THEN rec_pc' = "closing" /\ rec_reason' = "silence"
       ELSE rec_pc' = "check_max" /\ UNCHANGED rec_reason
    /\ UNCHANGED <<max_duration, silence_threshold, silence_duration, max_silent,
                   chunks, silent_chunks, speaking_started, cb_pc, stream_open>>

\* Faulty variant of RecCheckMax: the ceiling test is missing.
RecCheckMaxMissing ==
    /\ rec_pc = "check_max"
    /\ rec_pc' = "sleep"
    /\ UNCHANGED <<max_duration, silence_threshold, silence_duration, max_silent,
                   chunks, silent_chunks, speaking_started, cb_pc, stream_open,
                   rec_reason>>

\* Lines 65-66.
RecCheckMax ==
    /\ rec_pc = "check_max"
    /\ IF CeilingReached(Len(chunks), max_duration)
       THEN rec_pc' = "closing" /\ rec_reason' = "max"
       ELSE rec_pc' = "sleep" /\ UNCHANGED rec_reason
    /\ UNCHANGED <<max_duration, silence_threshold, silence_duration, max_silent,
                   chunks, silent_chunks, speaking_started, cb_pc, stream_open>>

\* Leaving the with-statement (after `break`): the stream is stopped and
\* closed, which waits for a callback that is running; lines 68-69 then
\* return np.concatenate(chunks).
RecClose ==
    /\ rec_pc = "closing"
    /\ cb_pc = "idle"
    /\ stream_open' = FALSE
    /\ rec_pc' = "done"
    /\ UNCHANGED <<max_duration, silence_threshold, silence_duration, max_silent,
                   chunks, silent_chunks, speaking_started, cb_pc, rec_reason>>

-----------------------------------------------------------------------------
(* transcribe(): index.py 81-102; transcribe_audio(): speech_app.py 64-89 *)

NoPath == <<>>
Path(n) == <<n>>

\* Sample values, in units in which the division by the peak is exact in
\* double arithmetic (the peak is 1 or 2).
Samples == {-2, 0, 1}

\* Texts the model returns after " ".join(...).strip(): nothing recognised,
\* or some text.
Texts == {"", "metin"}

\* An audio buffer is either a sequence of samples or, in the daemon, the
\* concatenation of captured frames of FrameSize samples each, named by
\* their frame numbers (the samples of a captured frame are not modelled).
SampleBuffer(seq) == [kind |-> "samples", data |-> seq]
FrameBuffer(frames) == [kind |-> "frames", data |-> frames]

\* blocksize=1024 (speech_app.py 215).
FrameSize == 1024

\* len(audio_data)
BufLen(b) == IF b.kind = "samples" THEN Len(b.data) ELSE FrameSize * Len(b.data)

Abs(x) == IF x < 0 THEN -x ELSE x

RECURSIVE MaxAbs(_)
\* np.max(np.abs(audio_data)) of a non-empty sample sequence.
MaxAbs(seq) ==
    IF Len(seq) = 1
    THEN Abs(seq[1])
    ELSE LET m == MaxAbs(Tail(seq)) IN
         IF Abs(seq[1]) > m THEN Abs(seq[1]) ELSE m

\* Faulty variant of Normalize: the samples are divided by the peak even
\* when the peak is 0.
NormalizeAlwaysDivides(seq) ==
    LET peak == MaxAbs(seq) IN
    [i \in 1..Len(seq) |-> <<seq[i], peak>>]

\* Lines 88-89 / 75-76: each sample becomes the fraction <<numerator,
\* denominator>>: divided by the peak when the peak is positive, left as it
\* is otherwise.
Normalize(seq) ==
    LET peak == MaxAbs(seq) IN
    [i \in 1..Len(seq) |-> IF peak > 0 THEN <<seq[i], peak>> ELSE <<seq[i], 1>>]

\* np.int16(x * 32767) of the fraction x: scaled, then truncated toward zero.
Quantize(x) ==
    LET n == x[1] * 32767 IN
    IF n >= 0 THEN n \div x[2] ELSE -((-n) \div x[2])

\* The transcriber at rest.
TrIdle ==
    /\ tr_pc = [t \in Threads |-> "idle"]
    /\ tr_variant = [t \in Threads |-> "daemon"]
    /\ tr_audio = [t \in Threads |-> SampleBuffer(<<>>)]
    /\ tr_path = [t \in Threads |-> NoPath]
    /\ tr_exc = [t \in Threads |-> FALSE]
    /\ tr_result = [t \in Threads |-> ""]
    /\ tr_calls = [t \in Threads |-> 0]
    /\ tr_written = [t \in Threads |-> <<>>]
    /\ temp_files = {}
    /\ files_created = 0
    /\ model_calls = 0

\* Thread t calls transcribe(audio, sr) (variant "cli") or
\* transcribe_audio(audio, sr) (variant "daemon").
TrCall(t, variant, audio) ==
    /\ tr_pc[t] \in {"idle", "done", "raised"}
    /\ tr_pc' = [tr_pc EXCEPT ![t] = "entry"]
    /\ tr_variant' = [tr_variant EXCEPT ![t] = variant]
    /\ tr_audio' = [tr_audio EXCEPT ![t] = audio]
    /\ tr_path' = [tr_path EXCEPT ![t] = NoPath]
    /\ tr_exc' = [tr_exc EXCEPT ![t] = FALSE]
    /\ tr_calls' = [tr_calls EXCEPT ![t] = @ + 1]
    /\ UNCHANGED <<tr_result, tr_written, temp_files, files_created, model_calls>>

\* speech_app.py 66-67: `if len(audio_data) == 0: return ""`.
TrEmptyReturn(t) ==
    /\ tr_pc[t] = "entry"
    /\ tr_variant[t] = "daemon"
    /\ BufLen(tr_audio[t]) = 0
    /\ tr_result' = [tr_result EXCEPT ![t] = ""]
    /\ tr_pc' = [tr_pc EXCEPT ![t] = "done"]
    /\ UNCHANGED <<tr_variant, tr_audio, tr_path, tr_exc, tr_calls, tr_written,
                   temp_files, files_created, model_calls>>

\* Lines 84-85 / 70-71: NamedTemporaryFile(suffix=".wav", delete=False)
\* creates the file, which stays on disk when the with-statement closes it.
TrTemp(t) ==
    /\ tr_pc[t] = "entry"
    /\ tr_variant[t] = "daemon" => BufLen(tr_audio[t]) # 0
    /\ files_created' = files_created + 1
    /\ temp_files' = temp_files \cup {Path(files_created + 1)}
    /\ tr_path' = [tr_path EXCEPT ![t] = Path(files_created + 1)]
    /\ tr_pc' = [tr_pc EXCEPT ![t] = "normalize"]
    /\ UNCHANGED <<tr_variant, tr_audio, tr_exc, tr_result, tr_calls, tr_written,
                   model_calls>>

\* Lines 88-89 / 74-76 on a non-empty buffer.
TrNormalize(t) ==
    /\ tr_pc[t] = "normalize"
    /\ BufLen(tr_audio[t]) > 0
    /\ tr_audio' = [tr_audio EXCEPT ![t] =
            IF @.kind = "samples" THEN [kind |-> "normalized", data |-> Normalize(@.data)]
            ELSE @]
    /\ tr_pc' = [tr_pc EXCEPT ![t] = "write"]
    /\ UNCHANGED <<tr_variant, tr_path, tr_exc, tr_result, tr_calls, tr_written,
                   temp_files, files_created, model_calls>>

\* Line 88 on an empty buffer (index.py only: transcribe_audio has returned):
\* np.max of a zero-size array raises ValueError, outside the try block.
TrNormalizeRaises(t) ==
    /\ tr_pc[t] = "normalize"
    /\ BufLen(tr_audio[t]) = 0
    /\ tr_pc' = [tr_pc EXCEPT ![t] = "raised"]
    /\ UNCHANGED <<tr_variant, tr_audio, tr_path, tr_exc, tr_result, tr_calls,
                   tr_written, temp_files, files_created, model_calls>>

\* Line 90 / 77: write(temp_path, sample_rate, np.int16(audio_data * 32767)).
TrWrite(t) ==
    /\ tr_pc[t] = "write"
    /\ tr_written' = [tr_written EXCEPT ![t] =
            IF tr_audio[t].kind = "normalized"
            THEN [i \in 1..Len(tr_audio[t].data) |-> Quantize(tr_audio[t].data[i])]
            ELSE tr_audio[t].data]
    /\ tr_pc' = [tr_pc EXCEPT ![t] = "enter_get_model"]
    /\ UNCHANGED <<tr_variant, tr_audio, tr_path, tr_exc, tr_result, tr_calls,
                   temp_files, files_created, model_calls>>

\* Line 90 / 77 raising (disk full, temporary directory gone): still
\* outside the try block, so the exception leaves the function at once.
TrWriteRaises(t) ==
    /\ tr_pc[t] = "write"
    /\ tr_pc' = [tr_pc EXCEPT ![t] = "raised"]
    /\ UNCHANGED <<tr_variant, tr_audio, tr_path, tr_exc, tr_result, tr_calls,
                   tr_written, temp_files, files_created, model_calls>>

\* Lines 92-93 / 79-80: inside `try`, get_model() is entered.
TrEnterGetModel(t) ==
    /\ tr_pc[t] = "enter_get_model"
    /\ GmEnter(t)
    /\ tr_pc' = [tr_pc EXCEPT ![t] = "get_model"]
    /\ UNCHANGED <<tr_variant, tr_audio, tr_path, tr_exc, tr_result, tr_calls,
                   tr_written, temp_files, files_created, model_calls>>

\* get_model() raised: the exception reaches the finally block.
TrGetModelRaised(t) ==
    /\ tr_pc[t] = "get_model"
    /\ gm_pc[t] = "raised"
    /\ tr_exc' = [tr_exc EXCEPT ![t] = TRUE]
    /\ tr_pc' = [tr_pc EXCEPT ![t] = "unlink"]
    /\ UNCHANGED <<tr_variant, tr_audio, tr_path, tr_result, tr_calls, tr_written,
                   temp_files, files_created, model_calls>>

\* Lines 94-100 / 81-87: model.transcribe(...) and the join of its segments
\* return a text.
TrInfer(t) ==
    /\ tr_pc[t] = "get_model"
    /\ gm_pc[t] = "done"
    /\ model_calls' = model_calls + 1
    /\ \E text \in Texts : tr_result' = [tr_result EXCEPT ![t] = text]
    /\ tr_pc' = [tr_pc EXCEPT ![t] = "unlink"]
    /\ UNCHANGED <<tr_variant, tr_audio, tr_path, tr_exc, tr_calls, tr_written,
                   temp_files, files_created>>

\* Lines 94-100 / 81-87 raising (the model call or the lazy segment
\* generator fails).
TrInferRaises(t) ==
    /\ tr_pc[t] = "get_model"
    /\ gm_pc[t] = "done"
    /\ model_calls' = model_calls + 1
    /\ tr_exc' = [tr_exc EXCEPT ![t] = TRUE]
    /\ tr_pc' = [tr_pc EXCEPT ![t] = "unlink"]
    /\ UNCHANGED <<tr_variant, tr_audio, tr_path, tr_result, tr_calls, tr_written,
                   temp_files, files_created>>

\* Lines 101-102 / 88-89: `finally: os.unlink(temp_path)`, then the return
\* or the pending exception.
TrUnlink(t) ==
    /\ tr_pc[t] = "unlink"
    /\ temp_files' = temp_files \ {tr_path[t]}
    /\ tr_pc' = [tr_pc EXCEPT ![t] = IF tr_exc[t] THEN "raised" ELSE "done"]
    /\ UNCHANGED <<tr_variant, tr_audio, tr_path, tr_exc, tr_result, tr_calls,
                   tr_written, files_created, model_calls>>

-----------------------------------------------------------------------------
(* SpeechToTextApp: speech_app.py 108-259 *)

\* The trigger names of show_hotkey_menu (line 147) used here; the other
\* eight are handled by the same code.
Hotkeys == {"ctrl", "alt"}

\* key_map.get(hotkey, keyboard.Key.ctrl) (lines 170-183); a key is named
\* like its hotkey.
KeyMap(hotkey) == IF hotkey \in Hotkeys THEN hotkey ELSE "ctrl"

NoStream == <<>>
Stream(n) == <<n>>

\* _sample_rate (line 28).
SampleRate == 16000

\* _sample_rate * 0.3 (line 238): 4800.0 in double arithmetic.
MinSamples == (SampleRate * 3) \div 10

\* Faulty variant of TooShort: the floor is compared in seconds.
TooShortInSeconds(n) == 10 * n < 3

\* `len(audio_data) < _sample_rate * 0.3` (line 238).
TooShort(n) == n < MinSamples

\* The daemon not running (the other specifications keep it here).
AppIdle ==
    /\ config = "ctrl"
    /\ trigger_key = "ctrl"
    /\ key_listener = "stopped"
    /\ is_recording = FALSE
    /\ audio_chunks = <<>>
    /\ stream = NoStream
    /\ open_streams = {}
    /\ running_streams = {}
    /\ sessions = 0
    /\ frames_delivered = 0
    /\ title = "mic"
    /\ w_pc = [w \in Workers |-> "unborn"]
    /\ w_audio = [w \in Workers |-> FrameBuffer(<<>>)]
    /\ w_pasted = [w \in Workers |-> FALSE]
    /\ w_notified = [w \in Workers |-> "none"]
    /\ spawned = 0
    /\ p_pc = [p \in Preloaders |-> "unborn"]
    /\ preloads = 0
    /\ pressed_key = "none"

\* __init__ (lines 109-131): the configured hotkey is loaded, the listener
\* is started for it and the first preload thread is started.
AppInit ==
    /\ config \in Hotkeys
    /\ trigger_key = KeyMap(config)
    /\ key_listener = "running"
    /\ is_recording = FALSE
    /\ audio_chunks = <<>>
    /\ stream = NoStream
    /\ open_streams = {}
    /\ running_streams = {}
    /\ sessions = 0
    /\ frames_delivered = 0
    /\ title = "mic"
    /\ w_pc = [w \in Workers |-> "unborn"]
    /\ w_audio = [w \in Workers |-> FrameBuffer(<<>>)]
    /\ w_pasted = [w \in Workers |-> FALSE]
    /\ w_notified = [w \in Workers |-> "none"]
    /\ spawned = 0
    /\ p_pc = [p \in Preloaders |-> IF p = <<"preload", 1>> THEN "start" ELSE "unborn"]
    /\ preloads = 1
    /\ pressed_key = "none"

\* Faulty variant of StartRecording: the frames of the previous recording
\* are kept.
StartRecordingKeepsChunks ==
    /\ is_recording' = TRUE
    /\ audio_chunks' = audio_chunks
    /\ title' = "red"
    /\ sessions' = sessions + 1
    /\ stream' = Stream(sessions + 1)
    /\ open_streams' = open_streams \cup {Stream(sessions + 1)}
    /\ running_streams' = running_streams \cup {Stream(sessions + 1)}
    /\ UNCHANGED key_listener

\* start_recording() (lines 200-218) with the stream opened and started.
StartRecording ==
    /\ is_recording' = TRUE
    /\ audio_chunks' = <<>>
    /\ title' = "red"
    /\ sessions' = sessions + 1
    /\ stream' = Stream(sessions + 1)
    /\ open_streams' = open_streams \cup {Stream(sessions + 1)}
    /\ running_streams' = running_streams \cup {Stream(sessions + 1)}
    /\ UNCHANGED key_listener

\* start_recording() with sd.InputStream(...) raising at line 211: the
\* assignment to self.stream never happens; the exception leaves on_press
\* and ends the listener thread.
StartRecordingOpenFails ==
    /\ is_recording' = TRUE
    /\ audio_chunks' = <<>>
    /\ title' = "red"
    /\ sessions' = sessions + 1
    /\ key_listener' = "stopped"
    /\ UNCHANGED <<stream, open_streams, running_streams>>

\* start_recording() with self.stream.start() raising at line 218: the
\* stream is open and assigned but not running.
StartRecordingStartFails ==
    /\ is_recording' = TRUE
    /\ audio_chunks' = <<>>
    /\ title' = "red"
    /\ sessions' = sessions + 1
    /\ stream' = Stream(sessions + 1)
    /\ open_streams' = open_streams \cup {Stream(sessions + 1)}
    /\ key_listener' = "stopped"
    /\ UNCHANGED running_streams

\* Faulty variant of PressStarts: the press is not tested against
\* is_recording.
PressStartsAlways(key) == key = trigger_key

\* `key == self.trigger_key and not self.is_recording` (line 186).
PressStarts(key) == key = trigger_key /\ ~is_recording

\* Faulty variant of ReleaseStops: the release is not tested against
\* is_recording.
ReleaseStopsAlways(key) == key = trigger_key

\* `key == self.trigger_key and self.is_recording` (line 190).
ReleaseStops(key) == key = trigger_key /\ is_recording

\* on_press(key) (lines 185-187) for a key-down the listener delivers,
\* start_recording() included.
OnPress(key) ==
    /\ key_listener = "running"
    /\ IF PressStarts(key)
       THEN /\ sessions < MaxWorkers
            /\ \/ StartRecording
               \/ StartRecordingOpenFails
               \/ StartRecordingStartFails
            /\ pressed_key' = key
       ELSE UNCHANGED <<is_recording, audio_chunks, title, sessions, stream,
                        open_streams, running_streams, key_listener,
                        pressed_key>>
    /\ UNCHANGED <<config, trigger_key, frames_delivered, w_pc, w_audio, w_pasted,
                   w_notified, spawned, p_pc, preloads>>

\* stop_recording() (lines 220-233): the stream, if any, is stopped and
\* closed, the frames are concatenated and a worker thread is started on
\* the result.  Stream.stop() and Stream.close() are called with their
\* default ignore_errors=True and do not raise.
StopRecording ==
    /\ is_recording' = FALSE
    /\ title' = "hourglass"
    /\ stream' = NoStream
    /\ open_streams' = open_streams \ {stream}
    /\ running_streams' = running_streams \ {stream}
    /\ spawned' = spawned + 1
    /\ w_pc' = [w_pc EXCEPT ![<<"worker", spawned + 1>>] = "start"]
    /\ w_audio' = [w_audio EXCEPT ![<<"worker", spawned + 1>>] = FrameBuffer(audio_chunks)]
    /\ UNCHANGED audio_chunks

\* on_release(key) (lines 189-191) for a key-up the listener delivers,
\* stop_recording() included.
OnRelease(key) ==
    /\ key_listener = "running"
    /\ IF ReleaseStops(key)
       THEN /\ spawned < MaxWorkers
            /\ StopRecording
       ELSE UNCHANGED <<is_recording, audio_chunks, title, stream,
                        open_streams, running_streams, spawned, w_pc, w_audio>>
    /\ pressed_key' = IF ReleaseStops(key) \/ key = pressed_key
                      THEN "none"
                      ELSE pressed_key
    /\ UNCHANGED <<config, trigger_key, key_listener, sessions, frames_delivered,
                   w_pasted, w_notified, p_pc, preloads>>

\* audio_callback (lines 207-209) for a frame of a running stream, the
\* device delivering no more than limit frames in one run.
AudioCallbackWithin(limit) ==
    /\ running_streams # {}
    /\ frames_delivered < limit
    /\ frames_delivered' = frames_delivered + 1
    /\ audio_chunks' = IF is_recording
                       THEN Append(audio_chunks, frames_delivered + 1)
                       ELSE audio_chunks
    /\ UNCHANGED <<config, trigger_key, key_listener, pressed_key, is_recording, stream,
                   open_streams, running_streams, sessions, title, w_pc,
                   w_audio, w_pasted, w_notified, spawned, p_pc, preloads>>

AudioCallback == AudioCallbackWithin(MaxFrames)

\* show_hotkey_menu (lines 145-163) with "Kaydet" clicked on one of the
\* listed keys: the hotkey is stored and start_hotkey_listener (lines
\* 165-198) replaces the listener.
ShowHotkeyMenu(choice) ==
    /\ choice \in Hotkeys
    /\ config' = choice
    /\ trigger_key' = KeyMap(choice)
    /\ key_listener' = "running"
    /\ UNCHANGED <<pressed_key, is_recording, audio_chunks, stream, open_streams,
                   running_streams, sessions, frames_delivered, title, w_pc,
                   w_audio, w_pasted, w_notified, spawned, p_pc, preloads>>

\* preload_model (lines 141-143): the menu item starts a preload thread.
PreloadModel ==
    /\ preloads < MaxPreloads
    /\ preloads' = preloads + 1
    /\ p_pc' = [p_pc EXCEPT ![<<"preload", preloads + 1>>] = "start"]
    /\ UNCHANGED <<config, trigger_key, key_listener, pressed_key, is_recording,
                   audio_chunks, stream, open_streams, running_streams, sessions,
                   frames_delivered, title, w_pc, w_audio, w_pasted,
                   w_notified, spawned>>

\* _preload_model_bg, lines 135-137: the indicator shows loading and
\* get_model() is entered.
PreloadBegin(p) ==
    /\ p_pc[p] = "start"
    /\ title' = "hourglass"
    /\ GmEnter(p)
    /\ p_pc' = [p_pc EXCEPT ![p] = "get_model"]
    /\ UNCHANGED <<config, trigger_key, key_listener, pressed_key, is_recording,
                   audio_chunks, stream, open_streams, running_streams, sessions,
                   frames_delivered, w_pc, w_audio, w_pasted, w_notified, spawned,
                   preloads>>

\* _preload_model_bg, lines 138-139, after get_model() returned.
PreloadReady(p) ==
    /\ p_pc[p] = "get_model"
    /\ gm_pc[p] = "done"
    /\ title' = "mic"
    /\ p_pc' = [p_pc EXCEPT ![p] = "done"]
    /\ UNCHANGED <<config, trigger_key, key_listener, pressed_key, is_recording,
                   audio_chunks, stream, open_streams, running_streams, sessions,
                   frames_delivered, w_pc, w_audio, w_pasted, w_notified, spawned,
                   preloads>>

\* _preload_model_bg with get_model() raising at line 137: nothing catches
\* the exception, lines 138-139 are skipped and the thread ends.
PreloadDies(p) ==
    /\ p_pc[p] = "get_model"
    /\ gm_pc[p] = "raised"
    /\ p_pc' = [p_pc EXCEPT ![p] = "died"]
    /\ UNCHANGED <<config, trigger_key, key_listener, pressed_key, is_recording,
                   audio_chunks, stream, open_streams, running_streams, sessions,
                   frames_delivered, title, w_pc, w_audio, w_pasted,
                   w_notified, spawned, preloads>>

\* _process_audio, lines 238-241: a buffer below the floor is dropped; the
\* indicator is reset and `return` leads to the finally block.
WorkerDiscard(w) ==
    /\ w_pc[w] = "start"
    /\ TooShort(BufLen(w_audio[w]))
    /\ title' = "mic"
    /\ w_pc' = [w_pc EXCEPT ![w] = "finally"]
    /\ UNCHANGED <<config, trigger_key, key_listener, pressed_key, is_recording,
                   audio_chunks, stream, open_streams, running_streams, sessions,
                   frames_delivered, w_audio, w_pasted, w_notified, spawned, p_pc,
                   preloads>>

\* _process_audio, line 243: transcribe_audio(audio_data, _sample_rate) is
\* called.
WorkerTranscribe(w) ==
    /\ w_pc[w] = "start"
    /\ ~TooShort(BufLen(w_audio[w]))
    /\ TrCall(w, "daemon", w_audio[w])
    /\ w_pc' = [w_pc EXCEPT ![w] = "transcribing"]
    /\ UNCHANGED <<config, trigger_key, key_listener, pressed_key, is_recording,
                   audio_chunks, stream, open_streams, running_streams, sessions,
                   frames_delivered, title, w_audio, w_pasted, w_notified,
                   spawned, p_pc, preloads>>

\* _process_audio, line 245, after transcribe_audio returned its text.
WorkerTranscribed(w) ==
    /\ w_pc[w] = "transcribing"
    /\ tr_pc[w] = "done"
    /\ w_pc' = [w_pc EXCEPT ![w] = IF tr_result[w] # "" THEN "deliver" ELSE "finally"]
    /\ UNCHANGED <<config, trigger_key, key_listener, pressed_key, is_recording,
                   audio_chunks, stream, open_streams, running_streams, sessions,
                   frames_delivered, title, w_audio, w_pasted, w_notified,
                   spawned, p_pc, preloads>>

\* Faulty variant of WorkerTranscribeRaised: nothing catches the exception
\* and the worker thread ends with it.
WorkerTranscribeRaisedEscapes(w) ==
    /\ w_pc[w] = "transcribing"
    /\ tr_pc[w] = "raised"
    /\ w_pc' = [w_pc EXCEPT ![w] = "done"]
    /\ UNCHANGED <<config, trigger_key, key_listener, pressed_key, is_recording,
                   audio_chunks, stream, open_streams, running_streams, sessions,
                   frames_delivered, title, w_audio, w_pasted, w_notified,
                   spawned, p_pc, preloads>>

\* transcribe_audio raised: control passes to `except Exception` (line 249).
WorkerTranscribeRaised(w) ==
    /\ w_pc[w] = "transcribing"
    /\ tr_pc[w] = "raised"
    /\ w_pc' = [w_pc EXCEPT ![w] = "except"]
    /\ UNCHANGED <<config, trigger_key, key_listener, pressed_key, is_recording,
                   audio_chunks, stream, open_streams, running_streams, sessions,
                   frames_delivered, title, w_audio, w_pasted, w_notified,
                   spawned, p_pc, preloads>>

\* _process_audio, lines 246-247: paste_text(text) and the notification.
WorkerDeliver(w) ==
    /\ w_pc[w] = "deliver"
    /\ w_pasted' = [w_pasted EXCEPT ![w] = TRUE]
    /\ w_notified' = [w_notified EXCEPT ![w] = "text"]
    /\ w_pc' = [w_pc EXCEPT ![w] = "finally"]
    /\ UNCHANGED <<config, trigger_key, key_listener, pressed_key, is_recording,
                   audio_chunks, stream, open_streams, running_streams, sessions,
                   frames_delivered, title, w_audio, spawned, p_pc,
                   preloads>>

\* paste_text raising (pbcopy or osascript cannot be started): control
\* passes to `except Exception`.
WorkerDeliverRaises(w) ==
    /\ w_pc[w] = "deliver"
    /\ w_pc' = [w_pc EXCEPT ![w] = "except"]
    /\ UNCHANGED <<config, trigger_key, key_listener, pressed_key, is_recording,
                   audio_chunks, stream, open_streams, running_streams, sessions,
                   frames_delivered, title, w_audio, w_pasted, w_notified,
                   spawned, p_pc, preloads>>

\* _process_audio, lines 249-250: the error notification.
WorkerExcept(w) ==
    /\ w_pc[w] = "except"
    /\ w_notified' = [w_notified EXCEPT ![w] = "error"]
    /\ w_pc' = [w_pc EXCEPT ![w] = "finally"]
    /\ UNCHANGED <<config, trigger_key, key_listener, pressed_key, is_recording,
                   audio_chunks, stream, open_streams, running_streams, sessions,
                   frames_delivered, title, w_audio, w_pasted, spawned,
                   p_pc, preloads>>

\* _process_audio, lines 251-253: the finally block resets the indicator and
\* the thread ends.
WorkerFinally(w) ==
    /\ w_pc[w] = "finally"
    /\ title' = "mic"
    /\ w_pc' = [w_pc EXCEPT ![w] = "done"]
    /\ UNCHANGED <<config, trigger_key, key_listener, pressed_key, is_recording,
                   audio_chunks, stream, open_streams, running_streams, sessions,
                   frames_delivered, w_audio, w_pasted, w_notified, spawned, p_pc,
                   preloads>>

\* The threads of the daemon that run get_model() and transcribe_audio().
AppThreads == Workers \cup Preloaders

-----------------------------------------------------------------------------
(* load_config / save_config: speech_app.py 20-42 *)

\* The names show_hotkey_menu accepts (line 147).
AllHotkeys == {"ctrl", "alt", "shift", "cmd", "f1", "f2", "f3", "f4", "f5", "f6"}

\* DEFAULT_HOTKEY (line 21).
DefaultHotkey == "ctrl"

NoFile == <<>>
NoConfig == <<>>

\* The dict {"hotkey": v}.
Config(v) == [hotkey |-> v]

\* json.dump(config, f) (line 42) of a one-entry dict of strings: the text
\* written, as the sequence of its tokens; a string is written between
\* double quotes, key and value are separated by ": ".
JsonString(str) == <<"\"", str, "\"">>
JsonDump(cfg) ==
    <<"{">> \o JsonString("hotkey") \o <<":", " ">> \o JsonString(cfg.hotkey) \o <<"}">>

\* Faulty variant of JsonLoad: the first string of the text is taken for the
\* value.
JsonLoadFirstString(text) == [hotkey |-> text[3]]

\* json.load(f) (line 35) of such a text: the string before the colon is
\* the key, the string after it (the token behind the next double quote) is
\* its value.
JsonLoad(text) ==
    LET colon == CHOOSE i \in 1..Len(text) : text[i] = ":"
        quote == CHOOSE i \in (colon + 1)..Len(text) :
                    text[i] = "\"" /\ \A j \in (colon + 1)..(i - 1) : text[j] # "\""
    IN  [k \in {text[colon - 2]} |-> text[quote + 1]]

\* No config call has been made and no file exists.
CfIdle ==
    /\ cfg_file = NoFile
    /\ cfg_saved = NoConfig
    /\ cfg_loaded = NoConfig
    /\ cfg_pc = "start"

\* save_config(config) (lines 39-42): the file is opened for writing and the
\* dict is dumped into it.
SaveConfig(cfg) ==
    /\ cfg_file' = JsonDump(cfg)
    /\ cfg_saved' = cfg
    /\ cfg_pc' = "saved"
    /\ UNCHANGED cfg_loaded

\* load_config() (lines 31-36): the parsed file if it exists, the default
\* otherwise.
LoadConfig ==
    /\ cfg_loaded' = IF cfg_file # NoFile
                     THEN JsonLoad(cfg_file)
                     ELSE Config(DefaultHotkey)
    /\ cfg_pc' = "loaded"
    /\ UNCHANGED <<cfg_file, cfg_saved>>

-----------------------------------------------------------------------------
(* main(): index.py 104-135.  The calls main makes are taken whole: each
   returns, raises, or is interrupted by a KeyboardInterrupt. *)

NoArg == <<>>
Arg(n) == <<n>>

\* Values of --sure used here: absent, 0 and a positive number of seconds.
SureArgs == {NoArg, Arg(0), Arg(5)}

\* `if args.sure:` (line 117): None and 0 are false.
Truthy(arg) == arg # NoArg /\ arg[1] # 0

\* main() not running (the other specifications keep it here).
MainIdle ==
    /\ main_pc = "exited"
    /\ args_sure = NoArg
    /\ args_dongu = FALSE
    /\ main_recorder = "none"
    /\ main_text = ""
    /\ main_rounds = 0
    /\ interrupted = FALSE
    /\ farewell = FALSE
    /\ exit_code = 0

\* Lines 105-109: the arguments are parsed; main is about to call
\* get_model() at line 112.
MainInit ==
    /\ main_pc = "preload"
    /\ args_sure \in SureArgs
    /\ args_dongu \in BOOLEAN
    /\ main_recorder = "none"
    /\ main_text = ""
    /\ main_rounds = 0
    /\ interrupted = FALSE
    /\ farewell = FALSE
    /\ exit_code = 0

\* Line 112: get_model() returns; the try statement of line 114 is entered.
MainPreload ==
    /\ main_pc = "preload"
    /\ main_pc' = "record"
    /\ UNCHANGED <<args_sure, args_dongu, main_recorder, main_text, main_rounds,
                   interrupted, farewell, exit_code>>

\* An exception other than KeyboardInterrupt in a call of main (the model
\* cannot be built, no input device, transcribe raises): main has no handler
\* for it, the traceback is printed and the process exits with status 1.
MainRaises ==
    /\ main_pc \in {"preload", "record", "transcribe"}
    /\ main_pc' = "exited"
    /\ exit_code' = 1
    /\ UNCHANGED <<args_sure, args_dongu, main_recorder, main_text, main_rounds,
                   interrupted, farewell>>

\* Lines 117-120: record_fixed(args.sure) or record_until_silence() returns.
MainRecord ==
    /\ main_pc = "record"
    /\ main_recorder' = IF Truthy(args_sure)
                        THEN "record_fixed"
                        ELSE "record_until_silence"
    /\ main_pc' = "transcribe"
    /\ UNCHANGED <<args_sure, args_dongu, main_text, main_rounds, interrupted,
                   farewell, exit_code>>

\* Line 123: transcribe(audio, sr) returns a text.
MainTranscribe ==
    /\ main_pc = "transcribe"
    /\ main_text' \in Texts
    /\ main_pc' = "print"
    /\ UNCHANGED <<args_sure, args_dongu, main_recorder, main_rounds, interrupted,
                   farewell, exit_code>>

\* Lines 125-132: the text (or the no-speech line) is printed; without
\* --dongu the loop is left and main returns, with it the next round begins.
MainPrint ==
    /\ main_pc = "print"
    /\ main_rounds' = main_rounds + 1
    /\ IF args_dongu
       THEN /\ main_rounds + 1 < MaxRounds
            /\ main_pc' = "record"
            /\ UNCHANGED exit_code
       ELSE /\ main_pc' = "exited"
            /\ exit_code' = 0
    /\ UNCHANGED <<args_sure, args_dongu, main_recorder, main_text, interrupted,
                   farewell>>

\* KeyboardInterrupt inside the try statement (lines 114-132): the handler
\* of lines 134-135 prints the farewell line and main returns.
MainInterruptInLoop ==
    /\ main_pc \in {"record", "transcribe", "print"}
    /\ interrupted' = TRUE
    /\ farewell' = TRUE
    /\ main_pc' = "exited"
    /\ exit_code' = 0
    /\ UNCHANGED <<args_sure, args_dongu, main_recorder, main_text, main_rounds>>

\* KeyboardInterrupt during get_model() at line 112, before the try
\* statement: nothing handles it, the interpreter prints the traceback and
\* the process ends by SIGINT (status 130 in the shell).
MainInterruptInPreload ==
    /\ main_pc = "preload"
    /\ interrupted' = TRUE
    /\ main_pc' = "exited"
    /\ exit_code' = 130
    /\ UNCHANGED <<args_sure, args_dongu, main_recorder, main_text, main_rounds,
                   farewell>>

-----------------------------------------------------------------------------
(* SpecModel: NCallers threads, each calling get_model() up to MaxCalls times *)

InitModel == GmInit /\ RecIdle /\ TrIdle /\ AppIdle /\ CfIdle /\ MainIdle

NextModel ==
    \/ \E t \in Callers :
        calls[t] < MaxCalls /\ GmEnter(t) /\ UNCHANGED <<recVars, trVars, dVars, otherVars>>
    \/ \E t \in Callers : GmCheck1(t) /\ UNCHANGED <<recVars, trVars, dVars, otherVars>>
    \/ \E t \in Callers : GmAcquire(t) /\ UNCHANGED <<recVars, trVars, dVars, otherVars>>
    \/ \E t \in Callers : GmCheck2(t) /\ UNCHANGED <<recVars, trVars, dVars, otherVars>>
    \/ \E t \in Callers : GmConstructOk(t) /\ UNCHANGED <<recVars, trVars, dVars, otherVars>>
    \/ \E t \in Callers : GmConstructFail(t) /\ UNCHANGED <<recVars, trVars, dVars, otherVars>>
    \/ \E t \in Callers : GmRelease(t) /\ UNCHANGED <<recVars, trVars, dVars, otherVars>>
    \/ \E t \in Callers : GmReturn(t) /\ UNCHANGED <<recVars, trVars, dVars, otherVars>>

SpecModel == InitModel /\ [][NextModel]_vars

-----------------------------------------------------------------------------
(* SpecRecord: one record_until_silence() call, its main thread and the
   audio thread *)

InitRecord == GmInit /\ RecInit /\ TrIdle /\ AppIdle /\ CfIdle /\ MainIdle

NextRecord ==
    \/ RecOpen /\ UNCHANGED <<gmVars, trVars, dVars, otherVars>>
    \/ RecOpenFail /\ UNCHANGED <<gmVars, trVars, dVars, otherVars>>
    \/ CbAppend /\ UNCHANGED <<gmVars, trVars, dVars, otherVars>>
    \/ CbUpdate /\ UNCHANGED <<gmVars, trVars, dVars, otherVars>>
    \/ RecSleep /\ UNCHANGED <<gmVars, trVars, dVars, otherVars>>
    \/ RecCheckSilence /\ UNCHANGED <<gmVars, trVars, dVars, otherVars>>
    \/ RecCheckMax /\ UNCHANGED <<gmVars, trVars, dVars, otherVars>>
    \/ RecClose /\ UNCHANGED <<gmVars, trVars, dVars, otherVars>>

SpecRecord == InitRecord /\ [][NextRecord]_vars

-----------------------------------------------------------------------------
(* SpecTranscribe: the main thread calls transcribe() or transcribe_audio()
   up to MaxTranscribes times on sample buffers of up to MaxSamples samples *)

RECURSIVE SeqsUpTo(_, _)
SeqsUpTo(S, n) ==
    IF n = 0
    THEN {<<>>}
    ELSE LET shorter == SeqsUpTo(S, n - 1) IN
         shorter \cup {Append(q, x) : q \in shorter, x \in S}

InitTranscribe == GmInit /\ RecIdle /\ TrIdle /\ AppIdle /\ CfIdle /\ MainIdle

NextTranscribe ==
    \/ /\ tr_calls[MainThread] < MaxTranscribes
       /\ \E variant \in {"cli", "daemon"}, seq \in SeqsUpTo(Samples, MaxSamples) :
            TrCall(MainThread, variant, SampleBuffer(seq))
       /\ UNCHANGED <<gmVars, recVars, dVars, otherVars>>
    \/ TrEmptyReturn(MainThread) /\ UNCHANGED <<gmVars, recVars, dVars, otherVars>>
    \/ TrTemp(MainThread) /\ UNCHANGED <<gmVars, recVars, dVars, otherVars>>
    \/ TrNormalize(MainThread) /\ UNCHANGED <<gmVars, recVars, dVars, otherVars>>
    \/ TrNormalizeRaises(MainThread) /\ UNCHANGED <<gmVars, recVars, dVars, otherVars>>
    \/ TrWrite(MainThread) /\ UNCHANGED <<gmVars, recVars, dVars, otherVars>>
    \/ TrWriteRaises(MainThread) /\ UNCHANGED <<gmVars, recVars, dVars, otherVars>>
    \/ TrEnterGetModel(MainThread) /\ UNCHANGED <<recVars, dVars, otherVars>>
    \/ GmCheck1(MainThread) /\ UNCHANGED <<recVars, trVars, dVars, otherVars>>
    \/ GmAcquire(MainThread) /\ UNCHANGED <<recVars, trVars, dVars, otherVars>>
    \/ GmCheck2(MainThread) /\ UNCHANGED <<recVars, trVars, dVars, otherVars>>
    \/ GmConstructOk(MainThread) /\ UNCHANGED <<recVars, trVars, dVars, otherVars>>
    \/ GmConstructFail(MainThread) /\ UNCHANGED <<recVars, trVars, dVars, otherVars>>
    \/ GmRelease(MainThread) /\ UNCHANGED <<recVars, trVars, dVars, otherVars>>
    \/ GmReturn(MainThread) /\ UNCHANGED <<recVars, trVars, dVars, otherVars>>
    \/ TrGetModelRaised(MainThread) /\ UNCHANGED <<gmVars, recVars, dVars, otherVars>>
    \/ TrInfer(MainThread) /\ UNCHANGED <<gmVars, recVars, dVars, otherVars>>
    \/ TrInferRaises(MainThread) /\ UNCHANGED <<gmVars, recVars, dVars, otherVars>>
    \/ TrUnlink(MainThread) /\ UNCHANGED <<gmVars, recVars, dVars, otherVars>>

SpecTranscribe == InitTranscribe /\ [][NextTranscribe]_vars

-----------------------------------------------------------------------------
(* Spec: the daemon.  The listener thread and the menu deliver events, the
   audio thread delivers frames, and the preload and worker threads run,
   in any interleaving.  A worker never takes the empty-buffer return of
   transcribe_audio nor fails in its normalisation: _process_audio drops
   every buffer below MinSamples first. *)

Init == GmInit /\ RecIdle /\ TrIdle /\ AppInit /\ CfIdle /\ MainIdle

Next ==
    \/ \E key \in Hotkeys : OnPress(key) /\ UNCHANGED <<gmVars, recVars, trVars, otherVars>>
    \/ \E key \in Hotkeys : OnRelease(key) /\ UNCHANGED <<gmVars, recVars, trVars, otherVars>>
    \/ AudioCallback /\ UNCHANGED <<gmVars, recVars, trVars, otherVars>>
    \/ \E choice \in Hotkeys :
        ShowHotkeyMenu(choice) /\ UNCHANGED <<gmVars, recVars, trVars, otherVars>>
    \/ PreloadModel /\ UNCHANGED <<gmVars, recVars, trVars, otherVars>>
    \/ \E p \in Preloaders : PreloadBegin(p) /\ UNCHANGED <<recVars, trVars, otherVars>>
    \/ \E p \in Preloaders : PreloadReady(p) /\ UNCHANGED <<gmVars, recVars, trVars, otherVars>>
    \/ \E p \in Preloaders : PreloadDies(p) /\ UNCHANGED <<gmVars, recVars, trVars, otherVars>>
    \/ \E w \in Workers : WorkerDiscard(w) /\ UNCHANGED <<gmVars, recVars, trVars, otherVars>>
    \/ \E w \in Workers : WorkerTranscribe(w) /\ UNCHANGED <<gmVars, recVars, otherVars>>
    \/ \E w \in Workers : WorkerTranscribed(w) /\ UNCHANGED <<gmVars, recVars, trVars, otherVars>>
    \/ \E w \in Workers :
        WorkerTranscribeRaised(w) /\ UNCHANGED <<gmVars, recVars, trVars, otherVars>>
    \/ \E w \in Workers : WorkerDeliver(w) /\ UNCHANGED <<gmVars, recVars, trVars, otherVars>>
    \/ \E w \in Workers : WorkerDeliverRaises(w) /\ UNCHANGED <<gmVars, recVars, trVars, otherVars>>
    \/ \E w \in Workers : WorkerExcept(w) /\ UNCHANGED <<gmVars, recVars, trVars, otherVars>>
    \/ \E w \in Workers : WorkerFinally(w) /\ UNCHANGED <<gmVars, recVars, trVars, otherVars>>
    \/ \E w \in Workers : TrTemp(w) /\ UNCHANGED <<gmVars, recVars, dVars, otherVars>>
    \/ \E w \in Workers : TrNormalize(w) /\ UNCHANGED <<gmVars, recVars, dVars, otherVars>>
    \/ \E w \in Workers : TrWrite(w) /\ UNCHANGED <<gmVars, recVars, dVars, otherVars>>
    \/ \E w \in Workers : TrWriteRaises(w) /\ UNCHANGED <<gmVars, recVars, dVars, otherVars>>
    \/ \E w \in Workers : TrEnterGetModel(w) /\ UNCHANGED <<recVars, dVars, otherVars>>
    \/ \E w \in Workers : TrGetModelRaised(w) /\ UNCHANGED <<gmVars, recVars, dVars, otherVars>>
    \/ \E w \in Workers : TrInfer(w) /\ UNCHANGED <<gmVars, recVars, dVars, otherVars>>
    \/ \E w \in Workers : TrInferRaises(w) /\ UNCHANGED <<gmVars, recVars, dVars, otherVars>>
    \/ \E w \in Workers : TrUnlink(w) /\ UNCHANGED <<gmVars, recVars, dVars, otherVars>>
    \/ \E t \in AppThreads : GmCheck1(t) /\ UNCHANGED <<recVars, trVars, dVars, otherVars>>
    \/ \E t \in AppThreads : GmAcquire(t) /\ UNCHANGED <<recVars, trVars, dVars, otherVars>>
    \/ \E t \in AppThreads : GmCheck2(t) /\ UNCHANGED <<recVars, trVars, dVars, otherVars>>
    \/ \E t \in AppThreads : GmConstructOk(t) /\ UNCHANGED <<recVars, trVars, dVars, otherVars>>
    \/ \E t \in AppThreads : GmConstructFail(t) /\ UNCHANGED <<recVars, trVars, dVars, otherVars>>
    \/ \E t \in AppThreads : GmRelease(t) /\ UNCHANGED <<recVars, trVars, dVars, otherVars>>
    \/ \E t \in AppThreads : GmReturn(t) /\ UNCHANGED <<recVars, trVars, dVars, otherVars>>

Spec == Init /\ [][Next]_vars

-----------------------------------------------------------------------------
(* Fair behaviours of record_until_silence(): the main thread keeps running
   (sd.sleep returns, the tests are evaluated, the with-statement exits), and
   the open device keeps delivering frames and finishing its callbacks. *)

RecMainStep ==
    (RecOpen \/ RecOpenFail \/ RecSleep \/ RecCheckSilence \/ RecCheckMax \/ RecClose)
        /\ UNCHANGED <<gmVars, trVars, dVars, otherVars>>

RecAudioStep ==
    (CbAppend \/ CbUpdate) /\ UNCHANGED <<gmVars, trVars, dVars, otherVars>>

FairSpecRecord ==
    SpecRecord /\ WF_vars(RecMainStep) /\ WF_vars(RecAudioStep)

-----------------------------------------------------------------------------
(* SpecOverlap: the daemon started without a config file and used through
   its default trigger key only (the menu is left alone), with up to
   MaxOverlapFrames frames delivered, so that two utterances long enough to
   be transcribed fit into one run. *)

InitOverlap == Init /\ config = DefaultHotkey

NextOverlap ==
    \/ OnPress(trigger_key) /\ UNCHANGED <<gmVars, recVars, trVars, otherVars>>
    \/ OnRelease(trigger_key) /\ UNCHANGED <<gmVars, recVars, trVars, otherVars>>
    \/ AudioCallbackWithin(MaxOverlapFrames)
        /\ UNCHANGED <<gmVars, recVars, trVars, otherVars>>
    \/ \E p \in Preloaders : PreloadBegin(p) /\ UNCHANGED <<recVars, trVars, otherVars>>
    \/ \E p \in Preloaders :
        PreloadReady(p) /\ UNCHANGED <<gmVars, recVars, trVars, otherVars>>
    \/ \E p \in Preloaders :
        PreloadDies(p) /\ UNCHANGED <<gmVars, recVars, trVars, otherVars>>
    \/ \E w \in Workers :
        WorkerDiscard(w) /\ UNCHANGED <<gmVars, recVars, trVars, otherVars>>
    \/ \E w \in Workers : WorkerTranscribe(w) /\ UNCHANGED <<gmVars, recVars, otherVars>>
    \/ \E w \in Workers :
        WorkerTranscribed(w) /\ UNCHANGED <<gmVars, recVars, trVars, otherVars>>
    \/ \E w \in Workers :
        WorkerTranscribeRaised(w) /\ UNCHANGED <<gmVars, recVars, trVars, otherVars>>
    \/ \E w \in Workers :
        WorkerDeliver(w) /\ UNCHANGED <<gmVars, recVars, trVars, otherVars>>
    \/ \E w \in Workers :
        WorkerDeliverRaises(w) /\ UNCHANGED <<gmVars, recVars, trVars, otherVars>>
    \/ \E w \in Workers :
        WorkerExcept(w) /\ UNCHANGED <<gmVars, recVars, trVars, otherVars>>
    \/ \E w \in Workers :
        WorkerFinally(w) /\ UNCHANGED <<gmVars, recVars, trVars, otherVars>>
    \/ \E w \in Workers : TrTemp(w) /\ UNCHANGED <<gmVars, recVars, dVars, otherVars>>
    \/ \E w \in Workers : TrNormalize(w) /\ UNCHANGED <<gmVars, recVars, dVars, otherVars>>
    \/ \E w \in Workers : TrWrite(w) /\ UNCHANGED <<gmVars, recVars, dVars, otherVars>>
    \/ \E w \in Workers : TrWriteRaises(w) /\ UNCHANGED <<gmVars, recVars, dVars, otherVars>>
    \/ \E w \in Workers : TrEnterGetModel(w) /\ UNCHANGED <<recVars, dVars, otherVars>>
    \/ \E w \in Workers :
        TrGetModelRaised(w) /\ UNCHANGED <<gmVars, recVars, dVars, otherVars>>
    \/ \E w \in Workers : TrInfer(w) /\ UNCHANGED <<gmVars, recVars, dVars, otherVars>>
    \/ \E w \in Workers : TrInferRaises(w) /\ UNCHANGED <<gmVars, recVars, dVars, otherVars>>
    \/ \E w \in Workers : TrUnlink(w) /\ UNCHANGED <<gmVars, recVars, dVars, otherVars>>
    \/ \E t \in AppThreads : GmCheck1(t) /\ UNCHANGED <<recVars, trVars, dVars, otherVars>>
    \/ \E t \in AppThreads : GmAcquire(t) /\ UNCHANGED <<recVars, trVars, dVars, otherVars>>
    \/ \E t \in AppThreads : GmCheck2(t) /\ UNCHANGED <<recVars, trVars, dVars, otherVars>>
    \/ \E t \in AppThreads :
        GmConstructOk(t) /\ UNCHANGED <<recVars, trVars, dVars, otherVars>>
    \/ \E t \in AppThreads :
        GmConstructFail(t) /\ UNCHANGED <<recVars, trVars, dVars, otherVars>>
    \/ \E t \in AppThreads : GmRelease(t) /\ UNCHANGED <<recVars, trVars, dVars, otherVars>>
    \/ \E t \in AppThreads : GmReturn(t) /\ UNCHANGED <<recVars, trVars, dVars, otherVars>>

SpecOverlap == InitOverlap /\ [][NextOverlap]_vars

-----------------------------------------------------------------------------
(* SpecConfig: save_config and load_config called in any order, with every
   hotkey name of the menu *)

InitConfig == GmInit /\ RecIdle /\ TrIdle /\ AppIdle /\ CfIdle /\ MainIdle

NextConfig ==
    \/ \E v \in AllHotkeys :
        SaveConfig(Config(v)) /\ UNCHANGED <<gmVars, recVars, trVars, dVars, mainVars>>
    \/ LoadConfig /\ UNCHANGED <<gmVars, recVars, trVars, dVars, mainVars>>

SpecConfig == InitConfig /\ [][NextConfig]_vars

-----------------------------------------------------------------------------
(* SpecMain: one run of the command-line program, interrupted or not *)

InitMain == GmInit /\ RecIdle /\ TrIdle /\ AppIdle /\ CfIdle /\ MainInit

NextMain ==
    \/ MainPreload /\ UNCHANGED <<gmVars, recVars, trVars, dVars, cfVars>>
    \/ MainRaises /\ UNCHANGED <<gmVars, recVars, trVars, dVars, cfVars>>
    \/ MainRecord /\ UNCHANGED <<gmVars, recVars, trVars, dVars, cfVars>>
    \/ MainTranscribe /\ UNCHANGED <<gmVars, recVars, trVars, dVars, cfVars>>
    \/ MainPrint /\ UNCHANGED <<gmVars, recVars, trVars, dVars, cfVars>>
    \/ MainInterruptInLoop /\ UNCHANGED <<gmVars, recVars, trVars, dVars, cfVars>>
    \/ MainInterruptInPreload /\ UNCHANGED <<gmVars, recVars, trVars, dVars, cfVars>>

SpecMain == InitMain /\ [][NextMain]_vars

-----------------------------------------------------------------------------
(* Properties *)

\* Frames of a recording that exceed the threshold, counted from the start
\* up to the first one that does not.
RECURSIVE LoudPrefix(_, _)
LoudPrefix(seq, threshold) ==
    IF seq = <<>> \/ ~(Head(seq) > threshold)
    THEN 0
    ELSE 1 + LoudPrefix(Tail(seq), threshold)

\* The recording is k+1 >= 1 frames above the threshold followed only by
\* frames not above it.
LoudThenQuiet(seq, threshold) ==
    /\ LoudPrefix(seq, threshold) >= 1
    /\ \A i \in 1..Len(seq) :
        i > LoudPrefix(seq, threshold) => ~(seq[i] > threshold)

NoFrameExceeds(seq, threshold) ==
    \A i \in 1..Len(seq) : ~(seq[i] > threshold)

\* C1: under every interleaving of the callers of get_model(), at most one
\* construction succeeds and stores a handle, every call that returns hands
\* back that one handle (never None), and so do all later calls.
C1_OneConstructionOneHandle ==
    /\ constructed <= 1
    /\ returned \subseteq {model}
    /\ NoModel \notin returned
    /\ (returned # {} => constructed = 1)
    /\ \A t \in Callers : gm_pc[t] = "done" => gm_ret[t] = model

\* C1 witness: all callers found the singleton empty on their first call,
\* raced through the lock, and every one of them has returned.
C1_Witness ==
    /\ failures = 0
    /\ \A t \in Callers :
        calls[t] = 1 /\ gm_saw_empty[t] /\ gm_pc[t] = "done" /\ gm_ret[t] = Handle(1)

\* C2: the step in which a construction raises leaves _model None and the
\* lock free, and the raising call hands no handle back; no thread outside
\* the with-statement ever holds the lock, so a later call can enter it.
C2_FailureLeavesEmptyAndUnlocked ==
    /\ [][\A t \in Callers :
            (gm_pc[t] = "construct" /\ gm_pc'[t] = "raised")
                => /\ model' = NoModel
                   /\ model_lock' = Free
                   /\ gm_ret'[t] = gm_ret[t]
                   /\ returned' = returned]_vars
    /\ [](\A t \in Callers :
            gm_pc[t] \in {"idle", "check1", "acquire", "return", "done", "raised"}
                => model_lock # t)

\* C2 witness: a construction raised, and a later call of the thread that
\* saw it raise (its second call) built the model and returned it.
C2_Witness ==
    \E t \in Callers :
        /\ failures >= 1
        /\ calls[t] = 2
        /\ gm_saw_empty[t]
        /\ gm_pc[t] = "done"
        /\ gm_ret[t] # NoModel
        /\ attempts = failures + 1

\* C3 as stated: for a recording of k+1 frames above the threshold followed
\* by at least max_silent >= 1 frames below it, with the ceiling further away,
\* the loop ends through the silence test with exactly k+1+max_silent frames
\* captured.
C3_EndsExactlyAtSilenceLimit ==
    (/\ rec_pc = "done"
     /\ LoudThenQuiet(chunks, silence_threshold)
     /\ max_silent >= 1
     /\ Len(chunks) - LoudPrefix(chunks, silence_threshold) >= max_silent
     /\ LoudPrefix(chunks, silence_threshold) + max_silent < max_duration)
        => /\ rec_reason = "silence"
           /\ Len(chunks) = LoudPrefix(chunks, silence_threshold) + max_silent

\* C3 amended: for such a recording the loop never ends through the silence
\* test before k+1+max_silent frames have been captured, and never through
\* the ceiling before max_duration worth of frames have been captured; the
\* returned recording may hold more frames than k+1+max_silent.
C3_EndsNoEarlierThanSilenceLimit ==
    (rec_pc \in {"closing", "done"} /\ LoudThenQuiet(chunks, silence_threshold))
        => /\ rec_reason \in {"silence", "max"}
           /\ rec_reason = "silence" =>
                Len(chunks) >= LoudPrefix(chunks, silence_threshold) + max_silent
           /\ rec_reason = "max" => CeilingReached(Len(chunks), max_duration)

\* C3 witness: one frame above the threshold, then two silent frames, ended
\* by the silence test with max_silent = 2 and the ceiling not reached.
C3_Witness ==
    /\ rec_pc = "done"
    /\ rec_reason = "silence"
    /\ max_silent = 2
    /\ LoudThenQuiet(chunks, silence_threshold)
    /\ LoudPrefix(chunks, silence_threshold) = 1
    /\ Len(chunks) = 3
    /\ Len(chunks) < max_duration

\* C4: while no captured frame exceeds silence_threshold, speaking_started
\* is false, no silent frame is counted, and the loop does not end through
\* the silence test: a recording that ends, ends through the ceiling.
C4_SilentStreamEndsOnlyAtCeiling ==
    NoFrameExceeds(chunks, silence_threshold)
        => /\ ~speaking_started
           /\ silent_chunks = 0
           /\ rec_reason # "silence"
           /\ rec_pc \in {"closing", "done"} =>
                (rec_reason = "max" /\ CeilingReached(Len(chunks), max_duration))

\* C4 witness: a finished recording none of whose frames exceeds the
\* threshold, one of them exactly at the threshold, with max_silent = 0.
C4_Witness ==
    /\ rec_pc = "done"
    /\ rec_reason = "max"
    /\ max_silent = 0
    /\ NoFrameExceeds(chunks, silence_threshold)
    /\ \E i \in 1..Len(chunks) : chunks[i] = silence_threshold

\* C5: every record_until_silence() call ends, and once max_duration worth
\* of frames has been captured the loop is left, whatever the frames hold.
C5_RecordingTerminates ==
    /\ <>(rec_pc \in {"done", "raised"})
    /\ (stream_open /\ CeilingReached(Len(chunks), max_duration)) ~> (rec_pc = "done")

\* C5 witness: every frame is above the threshold (a stuck-open microphone)
\* and the recording has ended through the ceiling.
C5_Witness ==
    /\ rec_pc = "done"
    /\ rec_reason = "max"
    /\ Len(chunks) >= max_duration
    /\ \A i \in 1..Len(chunks) : chunks[i] > silence_threshold

\* seq is an initial segment of longer.
IsPrefix(seq, longer) ==
    /\ Len(seq) <= Len(longer)
    /\ \A i \in 1..Len(seq) : seq[i] = longer[i]

\* C6: at most one input stream is open at any time, and it is the one
\* self.stream names; while a recording is active no step (so no key-down,
\* no hotkey change, no frame) starts another recording, opens another
\* stream or drops a frame accumulated so far.
C6_OneCaptureSession ==
    /\ [](/\ Cardinality(open_streams) <= 1
          /\ running_streams \subseteq open_streams
          /\ open_streams = IF stream = NoStream THEN {} ELSE {stream})
    /\ [][is_recording =>
            /\ sessions' = sessions
            /\ open_streams' \subseteq open_streams
            /\ IsPrefix(audio_chunks, audio_chunks')]_vars

\* C6 witness: the second recording of the run is active on an open,
\* running stream and has accumulated two frames.
C6_Witness ==
    /\ is_recording
    /\ sessions = 2
    /\ running_streams = {stream}
    /\ Len(audio_chunks) = 2

\* C7: the step that ends a recording closes the stream and starts exactly
\* one worker on the frames accumulated, without touching the transcriber,
\* the model or any other worker; no other step starts a worker, and while
\* the daemon is and stays idle no step changes the capture state.
C7_KeyUpHandsOffToOneWorker ==
    /\ [][(is_recording /\ ~is_recording') =>
            /\ stream' = NoStream
            /\ open_streams' = {}
            /\ running_streams' = {}
            /\ spawned' = spawned + 1
            /\ w_pc'[<<"worker", spawned'>>] = "start"
            /\ w_audio'[<<"worker", spawned'>>] = FrameBuffer(audio_chunks)
            /\ \A w \in Workers \ {<<"worker", spawned'>>} :
                w_pc'[w] = w_pc[w] /\ w_audio'[w] = w_audio[w]
            /\ UNCHANGED <<trVars, gmVars>>]_vars
    /\ [][(spawned' # spawned \/ \E w \in Workers : w_pc[w] = "unborn" /\ w_pc'[w] # "unborn")
            => (is_recording /\ ~is_recording')]_vars
    /\ [][(~is_recording /\ ~is_recording') =>
            UNCHANGED <<stream, open_streams, running_streams, audio_chunks,
                        spawned, w_audio>>]_vars

\* C7 witness: a recording of three frames has just been handed to the
\* first worker, which has not run yet; the daemon is idle, the stream closed.
C7_Witness ==
    /\ ~is_recording
    /\ open_streams = {}
    /\ spawned = 1
    /\ w_pc[<<"worker", 1>>] = "start"
    /\ Len(w_audio[<<"worker", 1>>].data) = 3
    /\ title = "hourglass"

\* C8: a worker whose buffer is shorter than 300 ms (10 * samples < 3 *
\* 16000; the empty buffer included) never calls transcribe_audio, never
\* pastes and shows no notification; a worker whose buffer is 300 ms or
\* longer calls transcribe_audio exactly once.
C8_ShortBuffersNeverTranscribed ==
    \A w \in Workers :
        w_pc[w] # "unborn" =>
            IF 10 * BufLen(w_audio[w]) < 3 * SampleRate
            THEN /\ tr_calls[w] = 0
                 /\ tr_pc[w] = "idle"
                 /\ ~w_pasted[w]
                 /\ w_notified[w] = "none"
            ELSE w_pc[w] # "start" => tr_calls[w] = 1

\* C8 witness: a worker has finished with a buffer of four frames (4096
\* samples, 256 ms), the longest below the floor.
C8_Witness ==
    \E w \in Workers :
        /\ w_pc[w] = "done"
        /\ Len(w_audio[w].data) = 4
        /\ tr_calls[w] = 0

\* C9: once every thread that set the indicator has reached its outcome (no
\* recording active, every worker and every preload thread finished), the
\* title no longer shows the hourglass.
C9_IndicatorResetAfterEveryOutcome ==
    (/\ ~is_recording
     /\ \A w \in Workers : w_pc[w] \in {"unborn", "done"}
     /\ \A p \in Preloaders : p_pc[p] \in {"unborn", "done", "died"})
        => title # "hourglass"

\* C10: whenever a transcribe / transcribe_audio call has returned or
\* raised, the temporary file it created is gone; no finished call leaves a
\* temporary file behind.
C10_TempFileDeletedAfterCall ==
    \A t \in Threads :
        tr_pc[t] \in {"done", "raised"} => tr_path[t] \notin temp_files

\* C11: a transcribe / transcribe_audio call on an empty buffer never
\* raises and never gets as far as the model (get_model, model.transcribe);
\* when it has returned, it has returned the empty string.
C11_EmptyBufferReturnsEmptyText ==
    \A t \in Threads :
        (tr_pc[t] # "idle" /\ Len(tr_audio[t].data) = 0)
            => /\ tr_pc[t] \in {"entry", "normalize", "write", "done"}
               /\ tr_pc[t] = "done" => tr_result[t] = ""

\* C12: a worker whose transcription raised is in, or past, its except
\* clause, and once past it the error notification has been shown; a worker
\* that has ended after any failure has shown a notification and never
\* pasted after it; a worker leaves transcription and delivery only to the
\* next stage, the except clause or the finally block; and no step of a running worker touches the listener,
\* the trigger key or the capture state, so later recordings are unaffected.
C12_WorkerFailureCaughtAndNotified ==
    /\ [](\A w \in Workers :
            /\ tr_pc[w] = "raised" =>
                    /\ w_pc[w] \in {"transcribing", "except", "finally", "done"}
                    /\ w_pc[w] \in {"finally", "done"} => w_notified[w] = "error"
                    /\ ~w_pasted[w]
            /\ w_pc[w] = "except" => w_notified[w] # "error")
    /\ [][\A w \in Workers :
            /\ (w_pc[w] \in {"transcribing", "deliver"} /\ w_pc'[w] # w_pc[w])
                    => w_pc'[w] \in {"deliver", "except", "finally"}
            /\ (w_pc[w] = "except" /\ w_pc'[w] # w_pc[w])
                    => (w_pc'[w] = "finally" /\ w_notified'[w] = "error")]_vars
    /\ [][\A w \in Workers :
            (w_pc[w] \notin {"unborn", "done"} /\ w_pc'[w] # w_pc[w])
                => UNCHANGED <<key_listener, trigger_key, config, is_recording,
                              audio_chunks, stream, open_streams, running_streams,
                              sessions, spawned>>]_vars

\* C12 witness: the first worker's transcription raised, the error was
\* shown and the worker has ended; a later recording was started and
\* stopped, and its worker has ended as well.
C12_Witness ==
    /\ tr_pc[<<"worker", 1>>] = "raised"
    /\ w_pc[<<"worker", 1>>] = "done"
    /\ w_notified[<<"worker", 1>>] = "error"
    /\ sessions = 2
    /\ w_pc[<<"worker", 2>>] = "done"
    /\ ~is_recording
    /\ title = "mic"

\* The buffers handed to the first n workers, one after the other.
RECURSIVE FramesOfWorkers(_)
FramesOfWorkers(n) ==
    IF n = 0
    THEN <<>>
    ELSE FramesOfWorkers(n - 1) \o w_audio[<<"worker", n>>].data

\* C13: the frames delivered so far are, in order and each exactly once, the
\* buffers of the workers started so far followed by the frames of the
\* recording in progress, so every worker holds exactly the frames of its
\* own session; the buffer a worker holds, and the copy its transcribe_audio
\* call works on, never change, whatever keys, frames and other threads do;
\* what a worker writes for the model is its own buffer; and a step of one
\* worker leaves the position of every other worker alone.
C13_WorkersOwnTheirBuffers ==
    /\ [](/\ FramesOfWorkers(spawned) \o (IF is_recording THEN audio_chunks ELSE <<>>)
                = [i \in 1..frames_delivered |-> i]
          /\ \A w \in Workers :
                /\ tr_pc[w] # "idle" => tr_audio[w] = w_audio[w]
                /\ tr_pc[w] \in {"enter_get_model", "get_model", "unlink", "done"}
                        => tr_written[w] = w_audio[w].data)
    /\ [][\A w \in Workers :
            /\ w_pc[w] # "unborn" => w_audio'[w] = w_audio[w]
            /\ tr_pc[w] # "idle" => tr_audio'[w] = tr_audio[w]
            /\ w_pc'[w] # w_pc[w] =>
                    \A other \in Workers \ {w} :
                        w_pc[other] # "unborn" =>
                            (w_pc'[other] = w_pc[other] /\ tr_pc'[other] = tr_pc[other])]_vars

\* C13 witness: the first worker, holding frames 1..5, has not yet written
\* its file, while a second recording was started, captured frames 6..10 and
\* was transcribed and pasted by the second worker.
C13_Witness ==
    /\ w_pc[<<"worker", 1>>] = "transcribing"
    /\ tr_pc[<<"worker", 1>>] = "write"
    /\ w_audio[<<"worker", 1>>].data = <<1, 2, 3, 4, 5>>
    /\ w_pc[<<"worker", 2>>] = "done"
    /\ tr_pc[<<"worker", 2>>] = "done"
    /\ tr_written[<<"worker", 2>>] = <<6, 7, 8, 9, 10>>
    /\ w_pasted[<<"worker", 2>>]

\* C14: a load_config() that follows a save_config(c) returns c, and a
\* load_config() with no file written returns {"hotkey": "ctrl"}.
C14_ConfigRoundTrip ==
    cfg_pc = "loaded" =>
        cfg_loaded = IF cfg_saved = NoConfig THEN Config(DefaultHotkey) ELSE cfg_saved

\* C14 witness: {"hotkey": "alt"} was saved, as the text shown, and then
\* loaded back.
C14_Witness ==
    /\ cfg_pc = "loaded"
    /\ cfg_saved = Config("alt")
    /\ cfg_file = <<"{", "\"", "hotkey", "\"", ":", " ", "\"", "alt", "\"", "}">>
    /\ cfg_loaded = Config("alt")

\* C15: a run of main that was ended by a KeyboardInterrupt has printed the
\* farewell line and exited with status 0.
C15_InterruptExitsCleanly ==
    (main_pc = "exited" /\ interrupted) => (farewell /\ exit_code = 0)

\* C16: a buffer all of whose samples are 0 is not divided (its samples keep
\* the denominator 1), and what is written for it is all-zero.
C16_SilenceStaysZero ==
    \A t \in Threads :
        (/\ tr_audio[t].kind = "normalized"
         /\ \A i \in 1..Len(tr_audio[t].data) : tr_audio[t].data[i][1] = 0)
            => /\ \A i \in 1..Len(tr_audio[t].data) : tr_audio[t].data[i][2] = 1
               /\ tr_pc[t] \in {"enter_get_model", "get_model", "unlink", "done"}
                    => tr_written[t] = [i \in 1..Len(tr_audio[t].data) |-> 0]

\* C16 witness: a call on two zero samples has returned, having written two
\* zeros.
C16_Witness ==
    /\ tr_pc[MainThread] = "done"
    /\ tr_audio[MainThread] = [kind |-> "normalized", data |-> <<(<<0, 1>>), (<<0, 1>>)>>]
    /\ tr_written[MainThread] = <<0, 0>>

\* C17: a recording that ended through the silence test had
\* speaking_started set, and the silent-frame limit it used covers
\* silence_duration (both in frames of 100 ms, silence_duration being given
\* in tenths of a second).
C17_SilenceLimitCoversDuration ==
    rec_reason = "silence" => (speaking_started /\ max_silent >= silence_duration)

\* C18: is_recording is true exactly when an input stream is open.
C18_RecordingIffStreamOpen ==
    is_recording <=> open_streams # {}

\* C19: whenever a recording is active the title shows the recording state.
C19_RecordingShowsRed ==
    is_recording => title = "red"

\* C20: while a recording is active on an open stream, the key whose
\* key-down started it has not been released.
C20_ReleaseOfStartingKeyEndsRecording ==
    (is_recording /\ open_streams # {}) => pressed_key # "none"

=============================================================================
